---- MODULE Spec2Model ----
(***************************************************************************)
(* The two-square (double Playfair) cipher engine of twosquare.py.         *)
(*                                                                         *)
(* A Python str is a sequence of characters.  A character is a one-letter  *)
(* TLA+ string ("A", "a", "1", " ", "!") or, for characters that cannot be *)
(* written in a module, its code point ("U+0009" is TAB, "U+00E9" is e     *)
(* acute, "U+0131" is dotless i, ...).  A Python value is a record that    *)
(* carries its type, so that the type(x) tests of the code can be modelled.*)
(***************************************************************************)
EXTENDS Integers, Sequences, FiniteSets, TLC

VARIABLES op, key1, key2, message, mode, omit_j, remove_z, result, printed,
          plaintext, table, letter, previous

vars == <<op, key1, key2, message, mode, omit_j, remove_z, result, printed,
          plaintext, table, letter, previous>>

(***************************************************************************)
(* Bounds of the model.                                                    *)
(***************************************************************************)
MaxKeyLen == 3
MaxMsgLen == 3
MaxTextLen == 4
MaxShortLen == 2
MaxCipherLen == 3

(***************************************************************************)
(* Python values.                                                          *)
(***************************************************************************)
PyStr(s) == [type |-> "str", str |-> s, bool |-> FALSE, int |-> 0, list |-> <<>>]
PyBool(b) == [type |-> "bool", str |-> <<>>, bool |-> b, int |-> 0, list |-> <<>>]
PyInt(n) == [type |-> "int", str |-> <<>>, bool |-> FALSE, int |-> n, list |-> <<>>]
PyList(l) == [type |-> "list", str |-> <<>>, bool |-> FALSE, int |-> 0, list |-> l]
PyNone == [type |-> "NoneType", str |-> <<>>, bool |-> FALSE, int |-> 0, list |-> <<>>]
\* the mode argument: its name when it is a str
PyMode(name) == [type |-> "str", name |-> name]
PyBadMode == [type |-> "int", name |-> ""]
PyRaise(e) == [type |-> "raise", str |-> <<e>>, bool |-> FALSE, int |-> 0, list |-> <<>>]
\* the tuple (row, column)
PyTuple(t) == [type |-> "tuple", str |-> <<>>, bool |-> FALSE, int |-> 0, list |-> t]

(***************************************************************************)
(* Characters and the str methods the code uses on them.                   *)
(***************************************************************************)
ascii_uppercase ==
    <<"A", "B", "C", "D", "E", "F", "G", "H", "I", "J", "K", "L", "M",
      "N", "O", "P", "Q", "R", "S", "T", "U", "V", "W", "X", "Y", "Z">>

ascii_lowercase ==
    <<"a", "b", "c", "d", "e", "f", "g", "h", "i", "j", "k", "l", "m",
      "n", "o", "p", "q", "r", "s", "t", "u", "v", "w", "x", "y", "z">>

Range(s) == {s[i] : i \in DOMAIN s}

UpperLetters == Range(ascii_uppercase)
LowerLetters == Range(ascii_lowercase)
Digits == {"0", "1", "2", "3", "4", "5", "6", "7", "8", "9"}
Punctuation == {"!", "$", ".", "?", "-", "@"}

\* TAB, LF, VT, FF, CR: white space that is in string.printable
PrintableSpace == {" ", "U+0009", "U+000A", "U+000B", "U+000C", "U+000D"}
\* NUL, FS, DEL: ASCII characters that are not in string.printable
ControlChars == {"U+0000", "U+001C", "U+007F"}
\* e acute, E acute, sharp s, dotless i, long s, the ligature fi
UnicodeLetters == {"U+00E9", "U+00C9", "U+00DF", "U+0131", "U+017F", "U+FB01"}
\* "U+00B2" is superscript two, "U+6587" a CJK ideograph

\* string.printable
printable == Digits \cup LowerLetters \cup UpperLetters \cup Punctuation
             \cup PrintableSpace

AsciiChars == printable \cup ControlChars
SpaceChars == PrintableSpace \cup {"U+001C"}
DigitChars == Digits \cup {"U+00B2"}
AlphaChars == UpperLetters \cup LowerLetters \cup UnicodeLetters \cup {"U+6587"}
NonPrintableChars == ControlChars \cup (PrintableSpace \ {" "})

isascii(c) == c \in AsciiChars
isspace(c) == c \in SpaceChars
isdigit(c) == c \in DigitChars
isnumeric(c) == c \in DigitChars
isalpha(c) == c \in AlphaChars
isprintable(c) == c \notin NonPrintableChars

IndexOf(s, x) == CHOOSE i \in DOMAIN s : s[i] = x /\ \A j \in 1..(i - 1) : s[j] # x

\* str.upper() of one character: a sequence, since it may be longer than one
upper_char(c) ==
    IF c \in LowerLetters THEN <<ascii_uppercase[IndexOf(ascii_lowercase, c)]>>
    ELSE IF c = "U+00E9" THEN <<"U+00C9">>
    ELSE IF c = "U+00DF" THEN <<"S", "S">>
    ELSE IF c = "U+0131" THEN <<"I">>
    ELSE IF c = "U+017F" THEN <<"S">>
    ELSE IF c = "U+FB01" THEN <<"F", "I">>
    ELSE <<c>>

RECURSIVE upper(_)
upper(s) == IF s = <<>> THEN <<>> ELSE upper_char(Head(s)) \o upper(Tail(s))

\* x in list
In(x, l) == \E i \in DOMAIN l : l[i] = x

\* list.remove(x): drops the first occurrence
Remove(l, x) ==
    LET i == IndexOf(l, x)
    IN  SubSeq(l, 1, i - 1) \o SubSeq(l, i + 1, Len(l))

RECURSIVE reverse(_)
reverse(l) == IF l = <<>> THEN <<>> ELSE Append(reverse(Tail(l)), Head(l))

(***************************************************************************)
(* validate_key.  KeyCharError is one pass of the loop over the characters *)
(* of the upper-cased key: the message of the exception it raises, or ""   *)
(* when the character is appended to letters_in_key.                       *)
(***************************************************************************)
NoError == ""
ErrKeyType == "Key must be a string."
ErrKeyEmpty == "Key must not be empty."
ErrKeySpace == "Key cannot contain white space. Only letters are allowed."
ErrKeyDigit == "Key cannot contain digits. Numbers must be spelled out."
ErrKeyPunct == "Key cannot contain punctuation or special characters."
ErrKeyDup == "Key must not contain duplicate letters."
ErrKeyAscii == "Only ASCII letters are allowed in key. No Unicode."
ErrKeyIJ == "Key may contain 'I' or 'J', but not both."
ErrKeyLen == "Key cannot contain more than twenty-five characters."

\* mutant: the duplicate check is left out
IsDuplicate_never(character, letters_in_key) == FALSE

IsDuplicate(character, letters_in_key) == In(character, letters_in_key)

\* mutant: the check for forbidden characters comes first
KeyCharError_alphafirst(character, letters_in_key) ==
    IF ~isalpha(character) THEN ErrKeyPunct
    ELSE IF isspace(character) THEN ErrKeySpace
    ELSE IF isdigit(character) THEN ErrKeyDigit
    ELSE IF IsDuplicate(character, letters_in_key) THEN ErrKeyDup
    ELSE IF ~In(character, ascii_uppercase) THEN ErrKeyAscii
    ELSE NoError

KeyCharError(character, letters_in_key) ==
    IF isspace(character) THEN ErrKeySpace
    ELSE IF isdigit(character) THEN ErrKeyDigit
    ELSE IF ~isalpha(character) THEN ErrKeyPunct
    ELSE IF IsDuplicate(character, letters_in_key) THEN ErrKeyDup
    ELSE IF ~In(character, ascii_uppercase) THEN ErrKeyAscii
    ELSE NoError

RECURSIVE KeyLoopError(_, _)
KeyLoopError(key, letters_in_key) ==
    IF key = <<>> THEN
        IF In("I", letters_in_key) /\ In("J", letters_in_key) THEN ErrKeyIJ
        ELSE NoError
    ELSE LET err == KeyCharError(Head(key), letters_in_key)
         IN  IF err # NoError THEN err
             ELSE KeyLoopError(Tail(key), Append(letters_in_key, Head(key)))

\* mutant: the key is not upper-cased
KeyCase_asis(key) == key

KeyCase(key) == upper(key)

\* the message validate_key prints, "" when it prints none
validate_key_error(key) ==
    IF key.type # "str" THEN ErrKeyType
    ELSE IF Len(key.str) < 1 THEN ErrKeyEmpty
    ELSE LET err == KeyLoopError(KeyCase(key.str), <<>>)
         IN  IF err # NoError THEN err
             ELSE IF Len(KeyCase(key.str)) > 25 THEN ErrKeyLen
             ELSE NoError

validate_key(key) == validate_key_error(key) = NoError

(***************************************************************************)
(* create_table.  A cell of a table is a str: "A" is <<"A">> and the       *)
(* merged cell "IJ" is <<"I", "J">>.                                       *)
(***************************************************************************)
MAX_ROWS == 5
MAX_COLUMNS == 5

alphabet == ascii_uppercase

IJ == <<"I", "J">>

\* mutant: I and J are not combined
KeyLetter_nomerge(character) == <<character>>

\* the letter a key character stands for in the table
KeyLetter(character) ==
    IF character = "I" \/ character = "J" THEN IJ ELSE <<character>>

RECURSIVE KeyAsLetters(_)
KeyAsLetters(key) ==
    IF key = <<>> THEN <<>>
    ELSE <<KeyLetter(Head(key))>> \o KeyAsLetters(Tail(key))

\* the loop that builds the list of all letters, I and J combined
RECURSIVE CombineIJ(_, _)
CombineIJ(letters, acc) ==
    IF letters = <<>> THEN acc
    ELSE IF Head(letters) = "J"
         THEN CombineIJ(Tail(letters), Append(Remove(acc, <<"I">>), IJ))
         ELSE CombineIJ(Tail(letters), Append(acc, <<Head(letters)>>))

\* mutant: the key letters stay in letters_not_in_key
RemoveKeyLetters_keep(key_as_letters, letters_not_in_key) == letters_not_in_key

\* the loop that removes the key letters from letters_not_in_key
RECURSIVE RemoveKeyLetters(_, _)
RemoveKeyLetters(key_as_letters, letters_not_in_key) ==
    IF key_as_letters = <<>> THEN letters_not_in_key
    ELSE RemoveKeyLetters(Tail(key_as_letters),
            IF In(Head(key_as_letters), letters_not_in_key)
            THEN Remove(letters_not_in_key, Head(key_as_letters))
            ELSE letters_not_in_key)

\* list.pop(): the last element and the list without it
PopItem(l) == l[Len(l)]
PopRest(l) == SubSeq(l, 1, Len(l) - 1)

\* the cells in the order the two nested loops produce them; both lists
\* are reversed, so that pop() takes their first element
RECURSIVE FillCells(_, _, _)
FillCells(key_as_letters, letters_not_in_key, n) ==
    IF n = 0 THEN <<>>
    ELSE IF Len(key_as_letters) > 0
         THEN <<PopItem(key_as_letters)>> \o
              FillCells(PopRest(key_as_letters), letters_not_in_key, n - 1)
         ELSE <<PopItem(letters_not_in_key)>> \o
              FillCells(key_as_letters, PopRest(letters_not_in_key), n - 1)

BuildTable(key) ==
    LET key_as_letters == KeyAsLetters(upper(key))
        letters_not_in_key ==
            RemoveKeyLetters(key_as_letters, CombineIJ(alphabet, <<>>))
        cells == FillCells(reverse(key_as_letters),
                           reverse(letters_not_in_key),
                           MAX_ROWS * MAX_COLUMNS)
    IN  [row \in 1..MAX_ROWS |->
            [column \in 1..MAX_COLUMNS |->
                cells[(row - 1) * MAX_COLUMNS + column]]]

\* mutant: the key is not validated
create_table_unchecked(key) == PyList(BuildTable(key.str))

create_table(key) ==
    IF ~validate_key(key) THEN PyBool(FALSE)
    ELSE PyList(BuildTable(key.str))

(***************************************************************************)
(* _get_coordinates.  Rows and columns are numbered from 0 as in the code; *)
(* the letter is a str.                                                    *)
(***************************************************************************)
\* mutant: I and J are looked up as they are
LookupLetter_asis(l) == l

LookupLetter(l) == IF l = <<"I">> \/ l = <<"J">> THEN IJ ELSE l

\* mutant: the letter is never found
FindRow_never(rows, l, row_number) == <<-1, -1>>

RECURSIVE FindRow(_, _, _)
FindRow(rows, l, row_number) ==
    IF rows = <<>> THEN <<-1, -1>>
    ELSE IF In(l, Head(rows))
         THEN <<row_number, IndexOf(Head(rows), l) - 1>>
         ELSE FindRow(Tail(rows), l, row_number + 1)

_get_coordinates(t, l) == FindRow(t, LookupLetter(l), 0)

\* _get_coordinates(table, letter) on Python values: a table that is not a
\* list cannot be iterated over
get_coordinates(t, l) ==
    IF t.type # "list" THEN PyRaise("TypeError")
    ELSE PyTuple(_get_coordinates(t.list, l))

(***************************************************************************)
(* validate_table.  A cell that is not a str (the cells 1 .. 5 of the      *)
(* tests) is written IntCell(n).                                           *)
(***************************************************************************)
IntCells == <<(<<"int:1">>), (<<"int:2">>), (<<"int:3">>), (<<"int:4">>),
              (<<"int:5">>)>>

IntCell(n) == IntCells[n]

ErrTableType == "Table must be a list."
ErrTableRows == "Illegal number of rows in table."
ErrTableColumns == "Illegal number of columns in table row."
ErrTableData == "Bad table data."
ErrTableIllegal == "Table contains illegal characters."
ErrTableInvalid == "Invalid characters in table."
ErrTableDup == "Table contains duplicate letters."
ErrTable26 == "Table contains more than 26 letters."
ErrUnexpected == "Unexpected exception type raised during execution:"

UpperChars == UpperLetters \cup {"U+00C9"}
LowerChars == LowerLetters \cup {"U+00E9", "U+00DF", "U+0131", "U+017F", "U+FB01"}

\* str.isalpha() and str.isupper() of a cell
cell_isalpha(cell) == cell # <<>> /\ \A i \in DOMAIN cell : isalpha(cell[i])
cell_isupper(cell) ==
    /\ \E i \in DOMAIN cell : cell[i] \in UpperChars
    /\ \A i \in DOMAIN cell : cell[i] \notin LowerChars

CellIsDuplicate(cell, letters_in_table) == In(cell, letters_in_table)

\* the checks on one cell: the message of the exception, or ""
CellError(cell, letters_in_table, letter_count) ==
    IF In(cell, IntCells) \/ Len(cell) > 2 THEN ErrTableData
    ELSE IF ~(\A i \in DOMAIN cell : isascii(cell[i]) /\ isprintable(cell[i]))
         THEN ErrTableIllegal
    ELSE IF ~(cell_isalpha(cell) /\ cell_isupper(cell)) THEN ErrTableInvalid
    ELSE IF CellIsDuplicate(cell, letters_in_table) THEN ErrTableDup
    ELSE IF letter_count + Len(cell) > 26 THEN ErrTable26
    ELSE NoError

\* the loop over the cells of the table in the order the code visits them;
\* the length of a row is checked when its first cell is reached
RECURSIVE TableLoopError(_, _, _, _)
TableLoopError(t, n, letters_in_table, letter_count) ==
    IF n >= Len(t) * 5 THEN NoError
    ELSE LET row == t[(n \div 5) + 1]
             cell == row[(n % 5) + 1]
         IN  IF n % 5 = 0 /\ Len(row) # 5 THEN ErrTableColumns
             ELSE IF CellError(cell, letters_in_table, letter_count) # NoError
                  THEN CellError(cell, letters_in_table, letter_count)
             ELSE TableLoopError(t, n + 1, Append(letters_in_table, cell),
                                 letter_count + Len(cell))

\* the message of the exception validate_table raises, "" when it raises none
validate_table_error(t) ==
    IF t.type # "list" THEN ErrTableType
    ELSE IF Len(t.list) # 5 THEN ErrTableRows
    ELSE TableLoopError(t.list, 0, <<>>, 0)

\* the first line validate_table prints
validate_table_printed(t) ==
    IF validate_table_error(t) = ErrTable26 THEN ErrUnexpected
    ELSE validate_table_error(t)

\* the ValueError of the letter count is not a BadValueError: it is not
\* caught but raised again
validate_table(t) ==
    IF validate_table_error(t) = ErrTable26 THEN PyRaise("ValueError")
    ELSE PyBool(validate_table_error(t) = NoError)

(***************************************************************************)
(* validate_plaintext, validate_ciphertext, validate_message               *)
(***************************************************************************)
ErrMsgType == "Error: message type must be a string."
ErrPlainType == "Error: plaintext must be a string."
ErrPlainEmpty == "Error: plaintext is empty."
ErrPlainSome == "Error: plaintext must contain at least some letters."
ErrPlainAscii == "Error: plaintext can consist of ASCII characters only."
ErrPlainPrint == "Error: plaintext cannot contain non-printable characters."
ErrPlainNone == "Error: No letters present in the plaintext."
ErrCipherType == "Error: ciphertext must be a string."
ErrCipherEmpty == "Error: ciphertext is empty."
ErrCipherPrint == "Only printable ASCII characters are allowed in ciphertext."
ErrCipherSpace == "White space is not allowed in the ciphertext."
ErrCipherDigit == "Digits are not allowed in the ciphertext."
ErrCipherCaps == "Only capitalized letters from the ASCII character set are allowed."
ErrMode == "Error: Invalid mode."

\* mutant: str.isprintable() instead of membership in string.printable
InPrintable_isprintable(c) == isprintable(c)

InPrintable(c) == c \in printable

validate_plaintext_error(m) ==
    IF m.type # "str" THEN ErrPlainType
    ELSE IF Len(m.str) = 0 THEN ErrPlainEmpty
    ELSE IF \/ \A i \in DOMAIN m.str : isspace(m.str[i])
            \/ \A i \in DOMAIN m.str : isnumeric(m.str[i])
         THEN ErrPlainSome
    ELSE IF \E i \in DOMAIN m.str : ~isascii(m.str[i]) THEN ErrPlainAscii
    ELSE IF \E i \in DOMAIN m.str : ~InPrintable(m.str[i]) THEN ErrPlainPrint
    ELSE IF \A i \in DOMAIN m.str : ~isalpha(m.str[i]) THEN ErrPlainNone
    ELSE NoError

validate_plaintext(m) == validate_plaintext_error(m) = NoError

\* mutant: any letter is accepted, capitalized or not
CipherCharError_anycase(character) ==
    IF ~(isascii(character) /\ isprintable(character)) THEN ErrCipherPrint
    ELSE IF isspace(character) THEN ErrCipherSpace
    ELSE IF isdigit(character) THEN ErrCipherDigit
    ELSE IF isalpha(character) THEN NoError
    ELSE ErrCipherCaps

CipherCharError(character) ==
    IF ~(isascii(character) /\ isprintable(character)) THEN ErrCipherPrint
    ELSE IF isspace(character) THEN ErrCipherSpace
    ELSE IF isdigit(character) THEN ErrCipherDigit
    ELSE IF In(character, ascii_uppercase) THEN NoError
    ELSE ErrCipherCaps

RECURSIVE CipherLoopError(_)
CipherLoopError(m) ==
    IF m = <<>> THEN NoError
    ELSE IF CipherCharError(Head(m)) # NoError THEN CipherCharError(Head(m))
    ELSE CipherLoopError(Tail(m))

validate_ciphertext_error(m) ==
    IF m.type # "str" THEN ErrCipherType
    ELSE IF Len(m.str) = 0 THEN ErrCipherEmpty
    ELSE CipherLoopError(m.str)

validate_ciphertext(m) == validate_ciphertext_error(m) = NoError

validate_message_error(m, md) ==
    IF m.type # "str" THEN ErrMsgType
    ELSE IF md \in {"plain", "p"} THEN validate_plaintext_error(m)
    ELSE IF md \in {"cipher", "c"} THEN validate_ciphertext_error(m)
    ELSE ErrMode

validate_message(m, md) == validate_message_error(m, md) = NoError

(***************************************************************************)
(* _xcrypt, encrypt, decrypt                                               *)
(***************************************************************************)
XcryptMode(md) ==
    IF md \in {"e", "encrypt"} THEN "encrypt"
    ELSE IF md \in {"d", "decrypt"} THEN "decrypt"
    ELSE "invalid"

\* mutant: nothing is filtered out
FilterLetters_all(capitalized) == capitalized

\* filter to remove everything but ASCII letter characters
RECURSIVE FilterLetters(_)
FilterLetters(capitalized) ==
    IF capitalized = <<>> THEN <<>>
    ELSE IF In(Head(capitalized), ascii_uppercase)
         THEN <<Head(capitalized)>> \o FilterLetters(Tail(capitalized))
         ELSE FilterLetters(Tail(capitalized))

\* mutant: no 'Z' is added
PadZ_never(filtered_text) == filtered_text

PadZ(filtered_text) ==
    IF Len(filtered_text) % 2 # 0 THEN Append(filtered_text, "Z")
    ELSE filtered_text

\* mutant: the J's stay in the ciphertext
RemoveJ_keep(m) == m

\* message.replace('J', '')
RECURSIVE RemoveJ(_)
RemoveJ(m) ==
    IF m = <<>> THEN <<>>
    ELSE IF Head(m) = "J" THEN RemoveJ(Tail(m))
    ELSE <<Head(m)>> \o RemoveJ(Tail(m))

FilteredText(md, m) ==
    IF md = "encrypt" THEN PadZ(FilterLetters(upper(m))) ELSE RemoveJ(m)

\* the list of digraphs, each a pair of one-character strs
Digraphs(filtered_text) ==
    [n \in 1..(Len(filtered_text) \div 2) |->
        <<(<<filtered_text[2 * n - 1]>>), (<<filtered_text[2 * n]>>)>>]

NotFound(first_table, second_table, digraph) ==
    LET rc1 == _get_coordinates(first_table, digraph[1])
        rc2 == _get_coordinates(second_table, digraph[2])
    IN  rc1[1] < 0 \/ rc2[1] < 0 \/ rc1[2] < 0 \/ rc2[2] < 0

\* mutant: the column numbers are not swapped
Substitute_noswap(first_table, second_table, digraph, rc1, rc2) ==
    IF rc1[2] # rc2[2]
    THEN <<first_table[rc1[1] + 1][rc1[2] + 1],
           second_table[rc2[1] + 1][rc2[2] + 1]>>
    ELSE digraph

\* the two processed letters of one digraph
Substitute(first_table, second_table, digraph, rc1, rc2) ==
    IF rc1[2] # rc2[2]
    THEN <<first_table[rc1[1] + 1][rc2[2] + 1],
           second_table[rc2[1] + 1][rc1[2] + 1]>>
    ELSE digraph

ProcessDigraph(first_table, second_table, digraph) ==
    Substitute(first_table, second_table, digraph,
               _get_coordinates(first_table, digraph[1]),
               _get_coordinates(second_table, digraph[2]))

\* mutant: the flag is ignored
OmitJ_keep(md, oj, processed_letter) == processed_letter

\* remove J's from output if optional flag set
OmitJ(md, oj, processed_letter) ==
    IF md = "decrypt" /\ oj = PyBool(TRUE) /\ processed_letter = IJ
    THEN <<"I">>
    ELSE processed_letter

OmitJs(md, oj, p) == OmitJ(md, oj, p[1]) \o OmitJ(md, oj, p[2])

RECURSIVE ProcessedText(_, _, _, _, _)
ProcessedText(md, oj, first_table, second_table, digraphs) ==
    IF digraphs = <<>> THEN <<>>
    ELSE OmitJs(md, oj, ProcessDigraph(first_table, second_table, Head(digraphs)))
         \o ProcessedText(md, oj, first_table, second_table, Tail(digraphs))

\* remove trailing 'Z' from end of text if decrypt and optional flag set
RemoveZ(md, rz, processed_text) ==
    IF md = "decrypt" /\ rz = PyBool(TRUE) /\ processed_text[Len(processed_text)] = "Z"
    THEN SubSeq(processed_text, 1, Len(processed_text) - 1)
    ELSE processed_text

ErrModeType == "Mode must be a string."
ErrKeys == "Invalid key error. I am the gatekeeper. Are you the keymaster?"
ErrPlaintext == "Invalid plaintext error."
ErrCiphertext == "Invalid ciphertext error."
ErrOmitJ == "Type for omit_j must be bool."
ErrRemoveZ == "Type for remove_z must be bool."
ErrUneven == "Error: uneven number of letters in ciphertext."

\* mutant: the types of omit_j and remove_z are not checked
xcrypt_error_noflags(md, m, k1, k2, oj, rz) ==
    IF md.type # "str" THEN ErrModeType
    ELSE IF XcryptMode(md.name) = "invalid" THEN ErrMode
    ELSE IF ~(validate_key(k1) /\ validate_key(k2)) THEN ErrKeys
    ELSE IF XcryptMode(md.name) = "encrypt" /\ ~validate_message(m, "plain")
         THEN ErrPlaintext
    ELSE IF XcryptMode(md.name) = "decrypt" /\ ~validate_message(m, "cipher")
         THEN ErrCiphertext
    ELSE IF XcryptMode(md.name) = "decrypt" /\ Len(RemoveJ(m.str)) % 2 # 0
         THEN ErrUneven
    ELSE NoError

\* the message of the exception the validation part of _xcrypt raises
xcrypt_error(md, m, k1, k2, oj, rz) ==
    IF md.type # "str" THEN ErrModeType
    ELSE IF XcryptMode(md.name) = "invalid" THEN ErrMode
    ELSE IF ~(validate_key(k1) /\ validate_key(k2)) THEN ErrKeys
    ELSE IF XcryptMode(md.name) = "encrypt" /\ ~validate_message(m, "plain")
         THEN ErrPlaintext
    ELSE IF XcryptMode(md.name) = "decrypt" /\ ~validate_message(m, "cipher")
         THEN ErrCiphertext
    ELSE IF oj.type # "bool" THEN ErrOmitJ
    ELSE IF rz.type # "bool" THEN ErrRemoveZ
    ELSE IF XcryptMode(md.name) = "decrypt" /\ Len(RemoveJ(m.str)) % 2 # 0
         THEN ErrUneven
    ELSE NoError

\* the loop over the digraphs and what follows it
\* mutant: processed_text still holds the text of the call before
InitialText_kept == IF result.type = "str" THEN result.str ELSE <<>>

\* processed_text at the start of a call
InitialText == <<>>

Transform(xmode, oj, rz, first_table, second_table, digraphs) ==
    IF \E n \in DOMAIN digraphs :
            NotFound(first_table, second_table, digraphs[n])
    THEN PyRaise("FooBarError")
    ELSE IF xmode = "decrypt" /\ rz = PyBool(TRUE) /\ digraphs = <<>>
    THEN PyRaise("IndexError")
    ELSE PyStr(RemoveZ(xmode, rz,
            InitialText
            \o ProcessedText(xmode, oj, first_table, second_table, digraphs)))

_xcrypt(md, m, k1, k2, oj, rz) ==
    IF xcrypt_error(md, m, k1, k2, oj, rz) # NoError THEN PyBool(FALSE)
    ELSE Transform(XcryptMode(md.name), oj, rz,
                   create_table(k1).list, create_table(k2).list,
                   Digraphs(FilteredText(XcryptMode(md.name), m.str)))

decrypt(ciphertext, k1, k2, oj, rz) ==
    _xcrypt(PyMode("decrypt"), ciphertext, k1, k2, oj, rz)

encrypt(p, k1, k2) ==
    _xcrypt(PyMode("encrypt"), p, k1, k2, PyBool(TRUE), PyBool(TRUE))

(***************************************************************************)
(* The inputs the callers draw from.                                       *)
(***************************************************************************)
BoundedSeq(S, n) == UNION {[1..k -> S] : k \in 0..n}

NonStrings == {PyInt(123), PyNone, PyBool(TRUE)}

KeyChars == {"A", "a", "I", "j", "Z", " ", "1", "!",
             "U+00E9", "U+0131", "U+00DF", "U+FB01"}

KeyHello == <<"h", "e", "l", "l", "o">>
KeyHelo == <<"h", "e", "l", "o">>
KeyAABC == <<"A", "A", "B", "C">>
KeyA26 == [i \in 1..26 |-> "A"]
KeyAlphabet25 == Remove(ascii_uppercase, "J")
KeyAlphabet26 == ascii_uppercase

KeyExamples == {KeyHello, KeyHelo, KeyAABC, KeyA26, KeyAlphabet25, KeyAlphabet26}

KeyValues ==
    {PyStr(s) : s \in BoundedSeq(KeyChars, MaxKeyLen) \cup KeyExamples}
    \cup NonStrings

MsgChars == {"A", "a", "1", " ", "!", "U+0009", "U+0000", "U+001C",
             "U+00E9", "U+00B2"}

MsgABC123 == <<"A", "B", "C", "1", "2", "3">>
Msg123 == <<"1", "2", "3">>

MsgValues ==
    {PyStr(s) : s \in BoundedSeq(MsgChars, MaxMsgLen) \cup {MsgABC123, Msg123}}
    \cup NonStrings

MsgModes == {"plain", "p", "cipher", "c", "x"}

CipherKeys ==
    {PyStr(s) : s \in {<<>>, <<"1">>, <<"Z">>, <<"i">>, <<"U+FB01">>,
                       <<"q", "J">>}}
    \cup {PyInt(123)}

PlainLetters == {"A", "E", "K", "J"}
PlainChars == {"A", "I", "Z", "a", "e", "1", " "}

\* plaintexts with punctuation: "a!", "$.", "?-@a"
PlainExamples == {<<"a", "!">>, <<"$", ".">>, <<"?", "-", "@", "a">>}

Plaintexts ==
    {PyStr(s) : s \in BoundedSeq(PlainLetters, MaxTextLen)
                      \cup BoundedSeq(PlainChars, MaxShortLen)
                      \cup PlainExamples}
    \cup {PyInt(123)}

CipherChars == {"A", "E", "I", "J", "a"}

Ciphertexts ==
    {PyStr(s) : s \in BoundedSeq(CipherChars, MaxCipherLen)} \cup {PyInt(123)}

\* spellings of the keys "Z", "i", "fi" and "qj"
KeyPool ==
    {<<"Z">>, <<"z">>, <<"i">>, <<"I">>, <<"j">>, <<"J">>, <<"U+0131">>,
     <<"U+FB01">>, <<"f", "i">>, <<"F", "J">>, <<"q", "J">>, <<"Q", "i">>,
     <<"q", "U+0131">>}

PoolKeys == {PyStr(k) : k \in KeyPool}

PoolChars == {"A", "I", "J"}
PoolTexts == {PyStr(s) : s \in BoundedSeq(PoolChars, MaxShortLen)}

\* the keys, texts and modes of a caller that makes one call after another
SessionKeys == {PyStr(<<"i">>), PyStr(<<"q", "J">>), PyStr(<<"1">>)}
SessionTexts ==
    {PyStr(<<"A", "E">>), PyStr(<<"E", "J">>), PyStr(<<"i">>), PyStr(<<"1">>)}
SessionModes == {"plain", "cipher"}

\* omit_j and remove_z
Flags == {PyBool(TRUE), PyBool(FALSE)}
FlagPairs == (Flags \X Flags) \cup {<<PyInt(0), PyBool(TRUE)>>,
                                    <<PyBool(TRUE), PyInt(0)>>}

\* the keys and the ciphertexts of tests__xcrypt and tests_decrypt
KeyPython == <<"p", "y", "t", "h", "o", "n">>
KeyAlgo == <<"a", "l", "g", "o">>

CipherBHATOKTEDZ == <<"B", "H", "A", "T", "O", "K", "T", "E", "D", "Z">>
CipherENQKPKOHDV == <<"E", "N", "Q", "K", "P", "K", "O", "H", "D", "V">>
CipherENQKOW == <<"E", "N", "Q", "K", "O", "W">>
CipherBHATOKTEBPGQLBGE ==
    <<"B", "H", "A", "T", "O", "K", "T", "E", "B", "P", "G", "Q", "L", "B",
      "G", "E">>

CipherExamples ==
    {PyStr(s) : s \in {CipherBHATOKTEDZ, CipherENQKPKOHDV, CipherENQKOW,
                       CipherBHATOKTEBPGQLBGE}}

\* the tables of src/test.py
valid_table_example ==
    <<(<<(<<"P">>), (<<"Y">>), (<<"T">>), (<<"H">>), (<<"O">>)>>),
      (<<(<<"N">>), (<<"A">>), (<<"B">>), (<<"C">>), (<<"D">>)>>),
      (<<(<<"E">>), (<<"F">>), (<<"G">>), (<<"I">>), (<<"K">>)>>),
      (<<(<<"L">>), (<<"M">>), (<<"Q">>), (<<"R">>), (<<"S">>)>>),
      (<<(<<"U">>), (<<"V">>), (<<"W">>), (<<"X">>), (<<"Z">>)>>)>>

RowABCDE == <<(<<"A">>), (<<"B">>), (<<"C">>), (<<"D">>), (<<"E">>)>>

invalid_table_example_1 == [row \in 1..5 |-> IntCells]
invalid_table_example_2 == [row \in 1..5 |-> RowABCDE]
invalid_table_example_3 == [row \in 1..2 |-> RowABCDE]
invalid_table_example_4 ==
    <<Append(RowABCDE, <<"F">>), RowABCDE, RowABCDE, RowABCDE, RowABCDE>>

TestTables == {valid_table_example, invalid_table_example_1,
               invalid_table_example_2, invalid_table_example_3,
               invalid_table_example_4}

\* 25 distinct cells of two uppercase letters: AA, AB, ..., EE
TwoLetterTable ==
    [row \in 1..MAX_ROWS |->
        [column \in 1..MAX_COLUMNS |->
            <<ascii_uppercase[row], ascii_uppercase[column]>>]]

\* the tables create_table returns for some keys
BuiltTables ==
    {BuildTable(key) : key \in {<<"Z">>, <<"i">>, <<"q", "J">>, <<"U+FB01">>,
                                KeyPython, KeyAlphabet25}}

\* tables made from a table by changing one thing
EditCells ==
    {<<"a">>, <<"1">>, <<"!">>, <<"A">>, <<"A", "B">>, <<"A", "b">>,
     <<"A", "B", "C">>, <<>>, <<"U+00C9">>, <<"U+0009">>, IntCell(1)}

ReplaceCell(t, row, column, cell) == [t EXCEPT ![row][column] = cell]
ShortRow(t, row) == [t EXCEPT ![row] = SubSeq(@, 1, Len(@) - 1)]
LongRow(t, row) == [t EXCEPT ![row] = Append(@, <<"A">>)]
DropRow(t) == SubSeq(t, 1, Len(t) - 1)
AddRow(t) == Append(t, t[1])

TableBases ==
    {BuildTable(<<"Z">>), BuildTable(<<"q", "J">>), valid_table_example,
     TwoLetterTable}

EditedTables ==
    {ReplaceCell(t, row, column, cell) :
        t \in TableBases, row \in 1..MAX_ROWS, column \in 1..MAX_COLUMNS,
        cell \in EditCells}
    \cup {ShortRow(t, row) : t \in TableBases, row \in 1..MAX_ROWS}
    \cup {LongRow(t, row) : t \in TableBases, row \in 1..MAX_ROWS}
    \cup {DropRow(t) : t \in TableBases}
    \cup {AddRow(t) : t \in TableBases}

NotTables == {PyInt(123), PyStr(<<"s", "t", "r", "i", "n", "g">>)}

TableValues ==
    {PyList(t) : t \in TestTables \cup BuiltTables \cup {TwoLetterTable}
                       \cup EditedTables}
    \cup NotTables

\* the tables and the letters _get_coordinates is called with
LookupTables ==
    {PyList(t) : t \in TestTables \cup BuiltTables \cup {TwoLetterTable}}
    \cup {PyInt(123)}

LookupLetters ==
    {<<"P">>, <<"Z">>, <<"I">>, <<"J">>, <<"A">>, <<"E">>, <<"5">>, <<"i">>,
     IJ, <<"A", "B">>, IntCell(1), IntCell(2)}

(***************************************************************************)
(* The callers: every action is one call of a function of the module, and  *)
(* the state is the call's arguments, what it returned and what it printed.*)
(* The functions keep nothing between calls: a caller starts from the idle *)
(* state, and Forget takes it back there when it drops the values.         *)
(***************************************************************************)
Unused == PyNone

Init ==
    /\ op = "init"
    /\ key1 = Unused
    /\ key2 = Unused
    /\ message = Unused
    /\ mode = PyMode("")
    /\ omit_j = Unused
    /\ remove_z = Unused
    /\ result = Unused
    /\ printed = NoError
    /\ plaintext = Unused
    /\ table = Unused
    /\ letter = Unused
    /\ previous = "init"

\* the call that ran before the call o
Previous(o) == IF o = "init" THEN "init" ELSE op

Return(o, k1, k2, m, md, oj, rz, r, p, pt) ==
    /\ op' = o
    /\ key1' = k1
    /\ key2' = k2
    /\ message' = m
    /\ mode' = md
    /\ omit_j' = oj
    /\ remove_z' = rz
    /\ result' = r
    /\ printed' = p
    /\ plaintext' = pt
    /\ table' = Unused
    /\ letter' = Unused
    /\ previous' = Previous(o)

Idle == op = "init"

Forget ==
    /\ ~Idle
    /\ Return("init", Unused, Unused, Unused, PyMode(""), Unused, Unused,
              Unused, NoError, Unused)

ValidateKey ==
    /\ Idle
    /\ \E k \in KeyValues :
        Return("validate_key", k, Unused, Unused, PyMode(""), Unused, Unused,
               PyBool(validate_key(k)), validate_key_error(k), Unused)

CreateTable ==
    /\ Idle
    /\ \E k \in KeyValues :
        Return("create_table", k, Unused, Unused, PyMode(""), Unused, Unused,
               create_table(k), NoError, Unused)

ValidateMessage ==
    /\ Idle
    /\ \E m \in MsgValues, md \in MsgModes :
        Return("validate_message", Unused, Unused, m, PyMode(md), Unused,
               Unused, PyBool(validate_message(m, md)),
               validate_message_error(m, md), Unused)

ValidatePlaintext ==
    /\ Idle
    /\ \E m \in MsgValues :
        Return("validate_plaintext", Unused, Unused, m, PyMode(""), Unused,
               Unused, PyBool(validate_plaintext(m)),
               validate_plaintext_error(m), Unused)

ValidateCiphertext ==
    /\ Idle
    /\ \E m \in MsgValues :
        Return("validate_ciphertext", Unused, Unused, m, PyMode(""), Unused,
               Unused, PyBool(validate_ciphertext(m)),
               validate_ciphertext_error(m), Unused)

Encrypt ==
    /\ Idle
    /\ \E p \in Plaintexts, k1 \in CipherKeys, k2 \in CipherKeys :
        Return("encrypt", k1, k2, p, PyMode("encrypt"), PyBool(TRUE),
               PyBool(TRUE), encrypt(p, k1, k2), NoError, Unused)

Decrypt ==
    /\ Idle
    /\ \E c \in Ciphertexts, k1 \in CipherKeys, k2 \in CipherKeys,
          f \in FlagPairs :
        Return("decrypt", k1, k2, c, PyMode("decrypt"), f[1], f[2],
               decrypt(c, k1, k2, f[1], f[2]), NoError, Unused)

\* the calls of decrypt with the keys 'python' and 'algo'
DecryptExample ==
    /\ Idle
    /\ \E c \in CipherExamples, oj \in Flags, rz \in Flags :
        Return("decrypt", PyStr(KeyPython), PyStr(KeyAlgo), c,
               PyMode("decrypt"), oj, rz,
               decrypt(c, PyStr(KeyPython), PyStr(KeyAlgo), oj, rz),
               NoError, Unused)

\* the calls with the keys of the pool
CreateTablePool ==
    /\ Idle
    /\ \E k \in PoolKeys :
        Return("create_table", k, Unused, Unused, PyMode(""), Unused, Unused,
               create_table(k), NoError, Unused)

EncryptPool ==
    /\ Idle
    /\ \E p \in PoolTexts, k1 \in PoolKeys, k2 \in PoolKeys :
        Return("encrypt", k1, k2, p, PyMode("encrypt"), PyBool(TRUE),
               PyBool(TRUE), encrypt(p, k1, k2), NoError, Unused)

DecryptPool ==
    /\ Idle
    /\ \E c \in PoolTexts, k1 \in PoolKeys, k2 \in PoolKeys,
          oj \in Flags, rz \in Flags :
        Return("decrypt", k1, k2, c, PyMode("decrypt"), oj, rz,
               decrypt(c, k1, k2, oj, rz), NoError, Unused)

\* the calls of a caller that makes one call after another
CallValidateKey ==
    \E k \in SessionKeys :
        Return("validate_key", k, Unused, Unused, PyMode(""), Unused, Unused,
               PyBool(validate_key(k)), validate_key_error(k), Unused)

CallCreateTable ==
    \E k \in SessionKeys :
        Return("create_table", k, Unused, Unused, PyMode(""), Unused, Unused,
               create_table(k), NoError, Unused)

CallValidateMessage ==
    \E m \in SessionTexts, md \in SessionModes :
        Return("validate_message", Unused, Unused, m, PyMode(md), Unused,
               Unused, PyBool(validate_message(m, md)),
               validate_message_error(m, md), Unused)

CallEncrypt ==
    \E p \in SessionTexts, k1 \in SessionKeys, k2 \in SessionKeys :
        Return("encrypt", k1, k2, p, PyMode("encrypt"), PyBool(TRUE),
               PyBool(TRUE), encrypt(p, k1, k2), NoError, Unused)

CallDecrypt ==
    \E c \in SessionTexts, k1 \in SessionKeys, k2 \in SessionKeys,
          oj \in Flags, rz \in Flags :
        Return("decrypt", k1, k2, c, PyMode("decrypt"), oj, rz,
               decrypt(c, k1, k2, oj, rz), NoError, Unused)

ReturnTable(o, k, t, l, r, p) ==
    /\ op' = o
    /\ table' = t
    /\ letter' = l
    /\ result' = r
    /\ printed' = p
    /\ key1' = k
    /\ key2' = Unused
    /\ message' = Unused
    /\ mode' = PyMode("")
    /\ omit_j' = Unused
    /\ remove_z' = Unused
    /\ plaintext' = Unused
    /\ previous' = Previous(o)

ValidateTable ==
    /\ Idle
    /\ \E t \in TableValues :
        ReturnTable("validate_table", Unused, t, Unused, validate_table(t),
                    validate_table_printed(t))

\* validate what the last call of create_table returned
ValidateResult ==
    /\ op = "create_table"
    /\ ReturnTable("validate_table", key1, result, Unused,
                   validate_table(result), validate_table_printed(result))

GetCoordinates ==
    /\ Idle
    /\ \E t \in LookupTables, l \in LookupLetters :
        ReturnTable("_get_coordinates", Unused, t, l, get_coordinates(t, l),
                    NoError)

\* decrypt what the last call of encrypt returned, with the same keys
DecryptResult ==
    /\ op = "encrypt"
    /\ \E oj \in Flags, rz \in Flags :
        Return("decrypt", key1, key2, result, PyMode("decrypt"), oj, rz,
               decrypt(result, key1, key2, oj, rz), NoError, message)

NextKey == ValidateKey \/ CreateTable \/ Forget

NextMessage == ValidateMessage \/ ValidatePlaintext \/ ValidateCiphertext \/ Forget

NextTable ==
    ValidateTable \/ GetCoordinates \/ CreateTable \/ ValidateResult \/ Forget

NextEncrypt == Encrypt \/ Forget

NextDecrypt == Decrypt \/ DecryptExample \/ Forget

NextPool == CreateTablePool \/ EncryptPool \/ DecryptPool \/ Forget

NextSession ==
    \/ CallValidateKey
    \/ CallCreateTable
    \/ CallValidateMessage
    \/ CallEncrypt
    \/ CallDecrypt

NextCipher == Encrypt \/ Decrypt \/ DecryptExample \/ DecryptResult \/ Forget

Next ==
    NextKey \/ NextMessage \/ NextTable \/ NextCipher \/ NextPool \/ NextSession

SpecKey == Init /\ [][NextKey]_vars
SpecMessage == Init /\ [][NextMessage]_vars
SpecTable == Init /\ [][NextTable]_vars
SpecEncrypt == Init /\ [][NextEncrypt]_vars
SpecDecrypt == Init /\ [][NextDecrypt]_vars
SpecCipher == Init /\ [][NextCipher]_vars
SpecPool == Init /\ [][NextPool]_vars
SpecSession == Init /\ [][NextSession]_vars
Spec == Init /\ [][Next]_vars

(***************************************************************************)
(* Notions the properties are stated with.                                 *)
(***************************************************************************)
AsciiLetters == UpperLetters \cup LowerLetters

\* the 25 letter-identities: A..H, IJ, K..Z
MergedAlphabet == {<<c>> : c \in UpperLetters \ {"I", "J"}} \cup {IJ}

ToUpperAscii(c) ==
    IF c \in LowerLetters THEN ascii_uppercase[IndexOf(ascii_lowercase, c)] ELSE c

Identity(c) == IF c \in {"I", "J"} THEN IJ ELSE <<c>>

\* the cells of a table in row-major order
RowMajor(t) == [i \in 1..25 |-> t[((i - 1) \div 5) + 1][((i - 1) % 5) + 1]]

\* the one place (row, column), counted from 1, where a table holds a cell
PlaceOf(t, cell) ==
    CHOOSE rc \in (1..5) \X (1..5) : t[rc[1]][rc[2]] = cell

\* the tie-break rule on the digraph (a, b)
TieBreak(t1, t2, a, b) ==
    LET p1 == PlaceOf(t1, Identity(a))
        p2 == PlaceOf(t2, Identity(b))
    IN  IF p1[2] # p2[2]
        THEN t1[p1[1]][p2[2]] \o t2[p2[1]][p1[2]]
        ELSE <<a, b>>

RECURSIVE TieBreakAll(_, _, _)
TieBreakAll(t1, t2, text) ==
    IF Len(text) < 2 THEN <<>>
    ELSE TieBreak(t1, t2, text[1], text[2])
         \o TieBreakAll(t1, t2, SubSeq(text, 3, Len(text)))

NotJ(c) == c # "J"

ValidKeys == validate_key(key1) /\ validate_key(key2)

RoundTrip ==
    /\ op = "decrypt"
    /\ plaintext.type = "str"
    /\ ValidKeys
    /\ omit_j = PyBool(FALSE)
    /\ remove_z = PyBool(FALSE)
    /\ Len(plaintext.str) % 2 = 0
    /\ \A i \in DOMAIN plaintext.str :
            plaintext.str[i] \in UpperLetters \ {"I", "J"}

(***************************************************************************)
(* C1 as stated: for valid keys and every plaintext of uppercase letters   *)
(* without I and J and of even length, decrypting the encryption with      *)
(* omit_j = False and remove_z = False returns the plaintext.  It fails    *)
(* for the empty plaintext, which encrypt rejects.                         *)
(***************************************************************************)
C1_RoundTripAnyLength == RoundTrip => result = plaintext

\* C1 amended: the round trip returns the plaintext when the plaintext is
\* moreover not empty.
C1_RoundTrip ==
    (RoundTrip /\ Len(plaintext.str) > 0) => result = plaintext

C1_Witness ==
    /\ RoundTrip
    /\ Len(plaintext.str) = 4
    /\ In("J", message.str)
    /\ result = plaintext

\* C2: for every key validate_key accepts, create_table returns 5 rows of 5
\* cells, the 25 cells are pairwise distinct and are exactly the merged
\* alphabet A..H, IJ, K..Z.
C2_TableIsMergedAlphabet ==
    (op = "create_table" /\ validate_key(key1)) =>
        /\ result.type = "list"
        /\ Len(result.list) = 5
        /\ \A r \in 1..5 : Len(result.list[r]) = 5
        /\ \A i, j \in 1..25 :
                i # j => RowMajor(result.list)[i] # RowMajor(result.list)[j]
        /\ Range(RowMajor(result.list)) = MergedAlphabet

C2_Witness ==
    /\ op = "create_table"
    /\ validate_key(key1)
    /\ Len(key1.str) = 3
    /\ In("j", key1.str)
    /\ result.type = "list"
    /\ result.list[1][1] = <<"Z">>

\* C3 as stated: create_table fills the grid row-major; for a valid key of
\* length n the cell at position i < n is the identity of the i-th key
\* character (upper-cased, I or J mapped to IJ), and the cells n..24 are the
\* identities that do not occur in the key, in alphabetical order.
C3_KeyThenAlphabet ==
    (op = "create_table" /\ validate_key(key1)) =>
        LET n == Len(key1.str)
            cells == RowMajor(result.list)
            keyIds == {IF upper_char(key1.str[i]) \in {<<"I">>, <<"J">>} THEN IJ
                       ELSE upper_char(key1.str[i]) : i \in 1..n}
            rest == SelectSeq(CombineIJ(alphabet, <<>>),
                              LAMBDA id : id \notin keyIds)
        IN  /\ result.type = "list"
            /\ \A i \in 1..n :
                cells[i] = IF upper_char(key1.str[i]) \in {<<"I">>, <<"J">>}
                           THEN IJ ELSE upper_char(key1.str[i])
            /\ SubSeq(cells, n + 1, 25) = SubSeq(rest, 1, 25 - n)

\* C4: for tables built from valid keys and every digraph (a, b), in both
\* modes: with a at (r1, c1) in table1 and b at (r2, c2) in table2, the two
\* output letters are table1[r1][c2] and table2[r2][c1] if c1 # c2, and a and
\* b unchanged if c1 = c2.  (In decrypt mode the output letters are looked at
\* with omit_j and remove_z off, which rewrite them afterwards.)
C4_TieBreak ==
    /\ (/\ op = "encrypt"
        /\ ValidKeys
        /\ message.type = "str"
        /\ Len(message.str) > 0
        /\ Len(message.str) % 2 = 0
        /\ \A i \in DOMAIN message.str : message.str[i] \in UpperLetters)
       => result = PyStr(TieBreakAll(create_table(key1).list,
                                     create_table(key2).list, message.str))
    /\ (/\ op = "decrypt"
        /\ ValidKeys
        /\ message.type = "str"
        /\ Len(message.str) > 0
        /\ \A i \in DOMAIN message.str : message.str[i] \in UpperLetters
        /\ Len(SelectSeq(message.str, NotJ)) % 2 = 0
        /\ omit_j = PyBool(FALSE)
        /\ remove_z = PyBool(FALSE))
       => result = PyStr(TieBreakAll(create_table(key1).list,
                                     create_table(key2).list,
                                     SelectSeq(message.str, NotJ)))

C4_Witness ==
    /\ op = "encrypt"
    /\ ValidKeys
    /\ message.type = "str"
    /\ Len(message.str) = 4
    /\ \A i \in DOMAIN message.str : message.str[i] \in UpperLetters
    /\ result.type = "str"
    /\ SubSeq(result.str, 1, 2) = SubSeq(message.str, 1, 2)
    /\ SubSeq(result.str, 3, Len(result.str)) # SubSeq(message.str, 3, 4)

\* C5: for a key made only of ASCII letters, validate_key returns True
\* exactly when the key is not empty, no letter occurs twice ignoring case,
\* the key does not hold both I and J (in either case), and it has at most
\* 25 characters.
C5_AsciiKeyAccepted ==
    (/\ op = "validate_key"
     /\ key1.type = "str"
     /\ \A i \in DOMAIN key1.str : key1.str[i] \in AsciiLetters)
    => result = PyBool(
        /\ Len(key1.str) > 0
        /\ \A i, j \in DOMAIN key1.str :
             i # j => ToUpperAscii(key1.str[i]) # ToUpperAscii(key1.str[j])
        /\ ~(/\ \E i \in DOMAIN key1.str : ToUpperAscii(key1.str[i]) = "I"
             /\ \E i \in DOMAIN key1.str : ToUpperAscii(key1.str[i]) = "J")
        /\ Len(key1.str) <= 25)

C5_Witness ==
    /\ op = "validate_key"
    /\ key1 = PyStr(KeyAlphabet25)
    /\ result = PyBool(TRUE)

\* C6 as stated: validate_key("hello") returns true.
C6_HelloAccepted ==
    (op = "validate_key" /\ key1 = PyStr(KeyHello)) => result = PyBool(TRUE)

\* C6 amended: validate_key("hello") returns false and reports the duplicate
\* letter (L occurs twice); validation is case-insensitive, and the lowercase
\* key "helo", which repeats no letter, is accepted.
C6_HelloRejected ==
    /\ (op = "validate_key" /\ key1 = PyStr(KeyHello))
        => (result = PyBool(FALSE) /\ printed = ErrKeyDup)
    /\ (op = "validate_key" /\ key1 = PyStr(KeyHelo)) => result = PyBool(TRUE)

C6_Witness ==
    /\ op = "validate_key"
    /\ key1 = PyStr(KeyHello)
    /\ result = PyBool(FALSE)

\* C7 as stated: validate_key returns False for every key that holds a
\* character that is not an ASCII letter.
C7_NonAsciiLetterRejected ==
    (/\ op = "validate_key"
     /\ key1.type = "str"
     /\ \E i \in DOMAIN key1.str : key1.str[i] \notin AsciiLetters)
    => result = PyBool(FALSE)

IllegalCharacter == {ErrKeySpace, ErrKeyDigit, ErrKeyPunct, ErrKeyAscii}

\* C8 as stated, for keys of ASCII characters: the reported failure is the
\* first violated rule in the order string, non-empty, every character an
\* ASCII letter, no duplicate, not both I and J, length.
C8_RuleOrder ==
    (/\ op = "validate_key"
     /\ key1.type = "str"
     /\ key1.str # <<>>
     /\ \A i \in DOMAIN key1.str : isascii(key1.str[i])
     /\ \E i \in DOMAIN key1.str : key1.str[i] \notin AsciiLetters)
    => printed \in IllegalCharacter

\* what the scan of the upper-cased key u reports at its character i
ScanError(u, i) ==
    IF isspace(u[i]) THEN ErrKeySpace
    ELSE IF isdigit(u[i]) THEN ErrKeyDigit
    ELSE IF ~isalpha(u[i]) THEN ErrKeyPunct
    ELSE IF \E j \in 1..(i - 1) : u[j] = u[i] THEN ErrKeyDup
    ELSE IF u[i] \notin UpperLetters THEN ErrKeyAscii
    ELSE NoError

\* C8 amended: validate_key checks that the key is a string, then that it is
\* not empty, then scans the upper-cased key from left to right and checks
\* each character in turn (white space, digit, other non-letter, duplicate of
\* an earlier letter, non-ASCII letter), then checks that the key does not
\* hold both I and J, then its length; the reported failure is the first one
\* met in that order, so "AA1" is reported as a duplicate letter and "A1A"
\* as a digit.
C8_ScanOrder ==
    op = "validate_key" =>
        printed =
            IF key1.type # "str" THEN ErrKeyType
            ELSE IF key1.str = <<>> THEN ErrKeyEmpty
            ELSE LET u == upper(key1.str)
                     bad == {i \in DOMAIN u : ScanError(u, i) # NoError}
                 IN  IF bad # {}
                     THEN ScanError(u, CHOOSE i \in bad : \A j \in bad : i <= j)
                     ELSE IF "I" \in Range(u) /\ "J" \in Range(u) THEN ErrKeyIJ
                     ELSE IF Len(u) > 25 THEN ErrKeyLen
                     ELSE NoError

C8_Witness ==
    /\ op = "validate_key"
    /\ key1 = PyStr(<<"A", "A", "1">>)
    /\ printed = ErrKeyDup
    /\ result = PyBool(FALSE)

PlainMode ==
    \/ op = "validate_plaintext"
    \/ op = "validate_message" /\ mode.name \in {"plain", "p"}

CipherMode ==
    \/ op = "validate_ciphertext"
    \/ op = "validate_message" /\ mode.name \in {"cipher", "c"}

C10_CiphertextAccepted ==
    /\ CipherMode => result = PyBool(
        /\ message.type = "str"
        /\ Len(message.str) > 0
        /\ \A i \in DOMAIN message.str : message.str[i] \in UpperLetters)
    /\ (PlainMode /\ message = PyStr(MsgABC123)) => result = PyBool(TRUE)

C10_Witness ==
    /\ op = "validate_message"
    /\ mode.name = "cipher"
    /\ message = PyStr(MsgABC123)
    /\ result = PyBool(FALSE)

BoolFlags == omit_j.type = "bool" /\ remove_z.type = "bool"

\* the message passes the validation rule of the mode of the call
ValidMessage ==
    \/ op = "encrypt" /\ validate_plaintext(message)
    \/ op = "decrypt" /\ validate_ciphertext(message)

\* the ciphertext without its J's
Purged == SelectSeq(message.str, NotJ)

\* C11: whenever key1 or key2 fails validate_key, or the message fails the
\* validation rule of the mode (plaintext rule for encrypt, ciphertext rule
\* for decrypt), or a key or the message is not a string, or omit_j or
\* remove_z is not a bool, encrypt and decrypt return False, never a string.
C11_FailFast ==
    (/\ op \in {"encrypt", "decrypt"}
     /\ \/ ~validate_key(key1)
        \/ ~validate_key(key2)
        \/ ~ValidMessage
        \/ key1.type # "str"
        \/ key2.type # "str"
        \/ message.type # "str"
        \/ ~BoolFlags)
    => result = PyBool(FALSE)

C11_Witness ==
    /\ op = "decrypt"
    /\ ValidKeys
    /\ validate_ciphertext(message)
    /\ Len(Purged) = 2
    /\ omit_j.type = "int"
    /\ result = PyBool(FALSE)

\* C12 as stated: for every pair of valid keys, every ciphertext that passes
\* the ciphertext validation and every boolean omit_j and remove_z, decrypt
\* returns a string or False; it never raises.
C12_NeverRaises ==
    (op = "decrypt" /\ ValidKeys /\ validate_ciphertext(message) /\ BoolFlags)
    => (result.type = "str" \/ result = PyBool(FALSE))

\* C13: decrypt never pads.  For valid keys, a valid ciphertext and boolean
\* flags, decrypt returns False when the number of letters that are left
\* after the removal of every 'J' is odd, and does not return False when that
\* number is even: the length of the ciphertext as given does not count.
C13_ParityAfterJ ==
    (op = "decrypt" /\ ValidKeys /\ validate_ciphertext(message) /\ BoolFlags)
    => /\ Len(Purged) % 2 = 1 => result = PyBool(FALSE)
       /\ Len(Purged) % 2 = 0 => result # PyBool(FALSE)

C13_Witness ==
    /\ op = "decrypt"
    /\ ValidKeys
    /\ BoolFlags
    /\ validate_ciphertext(message)
    /\ Len(message.str) = 2
    /\ Len(Purged) = 1
    /\ result = PyBool(FALSE)

\* a text without its final 'Z', if it has one
StripOneZ(text) ==
    IF text # <<>> /\ text[Len(text)] = "Z"
    THEN SubSeq(text, 1, Len(text) - 1)
    ELSE text

\* what decrypt returns for the arguments of the call with other flags
WithFlags(oj, rz) == decrypt(message, key1, key2, oj, rz)

PythonAlgo == key1 = PyStr(KeyPython) /\ key2 = PyStr(KeyAlgo)

\* C14 as stated: for every successful decryption the result with
\* remove_z = True is the result with remove_z = False without its final
\* 'Z' when it ends in 'Z', and is that result unchanged otherwise; with the
\* keys "python" and "algo", "BHATOKTEDZ" gives "DECRYPTED" with
\* remove_z = True and "DECRYPTEDZ" with remove_z = False.
C14_TrailingPad ==
    /\ (/\ op = "decrypt"
        /\ omit_j.type = "bool"
        /\ remove_z = PyBool(TRUE)
        /\ WithFlags(omit_j, PyBool(FALSE)).type = "str")
       => result = PyStr(StripOneZ(WithFlags(omit_j, PyBool(FALSE)).str))
    /\ (/\ op = "decrypt"
        /\ PythonAlgo
        /\ message = PyStr(CipherBHATOKTEDZ)
        /\ omit_j = PyBool(TRUE))
       => result = IF remove_z = PyBool(TRUE)
                   THEN PyStr(<<"D", "E", "C", "R", "Y", "P", "T", "E", "D">>)
                   ELSE PyStr(<<"D", "E", "C", "R", "Y", "P", "T", "E", "D",
                                "Z">>)

UnmergeCell(cell) == IF cell = IJ THEN <<"I">> ELSE cell

\* the tie-break rule on the digraph (a, b) with the merged cells unmerged
Unmerged(t1, t2, a, b) ==
    LET p1 == PlaceOf(t1, Identity(a))
        p2 == PlaceOf(t2, Identity(b))
    IN  IF p1[2] # p2[2]
        THEN UnmergeCell(t1[p1[1]][p2[2]]) \o UnmergeCell(t2[p2[1]][p1[2]])
        ELSE <<a, b>>

RECURSIVE UnmergedAll(_, _, _)
UnmergedAll(t1, t2, text) ==
    IF Len(text) < 2 THEN <<>>
    ELSE Unmerged(t1, t2, text[1], text[2])
         \o UnmergedAll(t1, t2, SubSeq(text, 3, Len(text)))

Decrypted ==
    /\ op = "decrypt"
    /\ ValidKeys
    /\ validate_ciphertext(message)
    /\ BoolFlags
    /\ result.type = "str"

\* C15: in a successful decryption with omit_j = True every merged cell IJ
\* that the tables produce is written as the single letter I and the output
\* holds no J at all; with omit_j = False such a cell is written as the two
\* characters IJ.  (The text is compared with remove_z off, which drops a
\* final Z afterwards.)
C15_Unmerge ==
    Decrypted =>
        /\ omit_j = PyBool(TRUE) => ~In("J", result.str)
        /\ (omit_j = PyBool(TRUE) /\ remove_z = PyBool(FALSE)) =>
            result.str = UnmergedAll(create_table(key1).list,
                                     create_table(key2).list, Purged)
        /\ (omit_j = PyBool(FALSE) /\ remove_z = PyBool(FALSE)) =>
            result.str = TieBreakAll(create_table(key1).list,
                                     create_table(key2).list, Purged)

C15_Witness ==
    /\ Decrypted
    /\ omit_j = PyBool(TRUE)
    /\ remove_z = PyBool(FALSE)
    /\ In("J", TieBreakAll(create_table(key1).list, create_table(key2).list,
                           Purged))
    /\ In("I", result.str)
    /\ ~In("J", result.str)

\* C16 as stated: decrypt(ciphertext, key1, key2, False) returns what
\* decrypt returns with omit_j = True and remove_z = False, the text with
\* its final 'Z' kept and every merged cell written as I; with the keys
\* "python" and "algo", "ENQKPKOHDV" gives "IIMMYIOHNZ" and "ENQKOW" gives
\* "IIMMYZ".
C16_FalseKeepsZ ==
    (/\ op = "decrypt"
     /\ ValidKeys
     /\ validate_ciphertext(message)
     /\ omit_j = PyBool(FALSE)
     /\ remove_z = PyBool(TRUE))
    => /\ result = WithFlags(PyBool(TRUE), PyBool(FALSE))
       /\ (PythonAlgo /\ message = PyStr(CipherENQKPKOHDV)) =>
            result = PyStr(<<"I", "I", "M", "M", "Y", "I", "O", "H", "N", "Z">>)
       /\ (PythonAlgo /\ message = PyStr(CipherENQKOW)) =>
            result = PyStr(<<"I", "I", "M", "M", "Y", "Z">>)

IsUpperLetter(c) == c \in UpperLetters

\* a plaintext upper-cased, without the characters that are not ASCII letters
Normalised(p) == SelectSeq([i \in DOMAIN p |-> ToUpperAscii(p[i])], IsUpperLetter)

Encrypted == op = "encrypt" /\ ValidKeys /\ validate_plaintext(message)

\* C17: for valid keys and a valid plaintext p, encrypt(p, k1, k2) returns
\* the string encrypt(q, k1, k2) returns, where q is p upper-cased with every
\* character that is not an ASCII letter removed.
C17_Normalisation ==
    Encrypted =>
        /\ result.type = "str"
        /\ result = encrypt(PyStr(Normalised(message.str)), key1, key2)

C17_Witness ==
    /\ Encrypted
    /\ In("a", message.str)
    /\ In("?", message.str)
    /\ Normalised(message.str) = <<"A">>
    /\ result.type = "str"

\* the letters encrypt splits into digraphs: a 'Z' after an odd number
Padded(letters) ==
    IF Len(letters) % 2 = 1 THEN Append(letters, "Z") ELSE letters

\* C18: when the number n of ASCII letters of a valid plaintext p is odd,
\* encrypt appends one 'Z' before it splits the letters into digraphs:
\* encrypt(p, k1, k2) = encrypt(p + "Z", k1, k2) and there are (n + 1) / 2
\* digraphs; when n is even nothing is appended and there are n / 2 digraphs.
C18_Padding ==
    Encrypted =>
        LET letters == Normalised(message.str)
            n == Len(letters)
            filtered_text == FilteredText("encrypt", message.str)
        IN  /\ filtered_text = Padded(letters)
            /\ result = PyStr(TieBreakAll(create_table(key1).list,
                                          create_table(key2).list,
                                          Padded(letters)))
            /\ n % 2 = 1 =>
                /\ result = encrypt(PyStr(Append(message.str, "Z")), key1, key2)
                /\ Len(Digraphs(filtered_text)) = (n + 1) \div 2
            /\ n % 2 = 0 => Len(Digraphs(filtered_text)) = n \div 2

C18_Witness ==
    /\ Encrypted
    /\ Len(Normalised(message.str)) = 3
    /\ message.str[3] # "Z"
    /\ result.type = "str"
    /\ Len(result.str) >= 4

\* C19: for every pair of valid keys and every message that passes the
\* validation of its mode, each letter of every digraph is found in its
\* table: _get_coordinates never returns (-1, -1) inside encrypt or decrypt
\* and the table-mismatch error is never raised.
C19_NoTableMismatch ==
    (op \in {"encrypt", "decrypt"} /\ ValidKeys /\ ValidMessage) =>
        LET first_table == create_table(key1).list
            second_table == create_table(key2).list
            digraphs == Digraphs(FilteredText(op, message.str))
        IN  /\ result # PyRaise("FooBarError")
            /\ \A n \in DOMAIN digraphs :
                /\ _get_coordinates(first_table, digraphs[n][1]) # <<-1, -1>>
                /\ _get_coordinates(second_table, digraphs[n][2]) # <<-1, -1>>

C19_Witness ==
    /\ op = "encrypt"
    /\ key1 = PyStr(<<"U+FB01">>)
    /\ validate_key(key2)
    /\ validate_plaintext(message)
    /\ In("I", message.str)
    /\ result.type = "str"

\* C20: create_table(key) returns a table exactly when validate_key(key) is
\* True and returns False exactly when validate_key(key) is False (key not a
\* string, empty, with an illegal character, a duplicate letter, or both I
\* and J).
C20_TableIffValid ==
    op = "create_table" =>
        /\ result.type = "list" <=> validate_key(key1)
        /\ result = PyBool(FALSE) <=> ~validate_key(key1)
        /\ (key1.type # "str" \/ key1.str = <<>>) => result = PyBool(FALSE)

C20_Witness ==
    /\ op = "create_table"
    /\ key1.type = "str"
    /\ In("I", key1.str)
    /\ In("j", key1.str)
    /\ result = PyBool(FALSE)

\* the places (row, column), counted from 1, of the cells of a table
Places(t) == {rc \in (DOMAIN t) \X (1..6) : rc[2] <= Len(t[rc[1]])}

CellAt(t, rc) == t[rc[1]][rc[2]]

MadeOfLetters(cell) ==
    /\ ~In(cell, IntCells)
    /\ cell # <<>>
    /\ \A i \in DOMAIN cell : cell[i] \in AsciiLetters

HasLowercase(cell) ==
    ~In(cell, IntCells) /\ \E i \in DOMAIN cell : cell[i] \in LowerLetters

\* a table the claim says validate_table rejects
Malformed(t) ==
    \/ Len(t) # 5
    \/ \E row \in DOMAIN t : Len(t[row]) # 5
    \/ \E p, q \in Places(t) : p # q /\ CellAt(t, p) = CellAt(t, q)
    \/ \E p \in Places(t) : HasLowercase(CellAt(t, p))
    \/ \E p \in Places(t) : ~MadeOfLetters(CellAt(t, p))

\* C21 as stated: validate_table returns True for every table create_table
\* builds from a valid key, and returns False for a table with a number of
\* rows other than 5, a row whose length is not 5, two equal cells, a
\* lowercase cell, or a cell that is not made of letters.
C21_TableAccepted ==
    /\ (op = "validate_table" /\ validate_key(key1)) => result = PyBool(TRUE)
    /\ (op = "validate_table" /\ table.type = "list" /\ Malformed(table.list))
        => result = PyBool(FALSE)

\* a 5x5 table of str cells
FiveByFive(t) ==
    /\ Len(t) = 5
    /\ \A row \in DOMAIN t : Len(t[row]) = 5
    /\ \A p \in Places(t) : ~In(CellAt(t, p), IntCells)

RECURSIVE LetterTotal(_)
LetterTotal(cells) ==
    IF cells = <<>> THEN 0 ELSE Len(Head(cells)) + LetterTotal(Tail(cells))

\* C22 as stated: on a 5x5 list of string cells validate_table returns the
\* boolean True or False, and it returns False (it does not raise) for a 5x5
\* table of distinct uppercase cells of one or two letters with more than 26
\* letters in all.
C22_AlwaysBoolean ==
    (op = "validate_table" /\ table.type = "list" /\ FiveByFive(table.list))
    => /\ result.type = "bool"
       /\ (/\ \A p \in Places(table.list) :
                /\ Len(CellAt(table.list, p)) \in {1, 2}
                /\ \A i \in DOMAIN CellAt(table.list, p) :
                        CellAt(table.list, p)[i] \in UpperLetters
           /\ \A p, q \in Places(table.list) :
                p # q => CellAt(table.list, p) # CellAt(table.list, q)
           /\ LetterTotal(RowMajor(table.list)) > 26)
          => result = PyBool(FALSE)

\* the first place of a cell in a table, rows top to bottom and each row
\* left to right
FirstPlace(t, cell) ==
    CHOOSE p \in Places(t) :
        /\ CellAt(t, p) = cell
        /\ \A q \in Places(t) :
            CellAt(t, q) = cell =>
                (p[1] < q[1] \/ (p[1] = q[1] /\ p[2] <= q[2]))

\* C23: _get_coordinates(table, letter) takes 'IJ' for a letter 'I' or 'J',
\* and returns the (row, column), counted from 0, of the first cell equal to
\* it, rows top to bottom and each row left to right, so that
\* table[row][column] is that cell; it returns (-1, -1) when no cell equals it.
C23_Coordinates ==
    (op = "_get_coordinates" /\ table.type = "list") =>
        LET id == IF letter \in {<<"I">>, <<"J">>} THEN IJ ELSE letter
            t == table.list
        IN  IF \E p \in Places(t) : CellAt(t, p) = id
            THEN /\ result = PyTuple(<<FirstPlace(t, id)[1] - 1,
                                       FirstPlace(t, id)[2] - 1>>)
                 /\ t[result.list[1] + 1][result.list[2] + 1] = id
            ELSE result = PyTuple(<<-1, -1>>)

C23_Witness ==
    /\ op = "_get_coordinates"
    /\ table = PyList(invalid_table_example_2)
    /\ letter = <<"E">>
    /\ result = PyTuple(<<0, 4>>)

\* C30: validate_table accepts tables that create_table never returns and
\* in which a letter cannot be found: the table valid_table_example has a
\* cell 'I' and no cell 'IJ', validate_table returns True for it,
\* _get_coordinates returns (-1, -1) for 'I' and for 'J' in it, and every
\* table create_table returns has the cell 'IJ'.
C30_StructuralOnly ==
    /\ (op = "validate_table" /\ table = PyList(valid_table_example))
        => result = PyBool(TRUE)
    /\ (/\ op = "_get_coordinates"
        /\ table = PyList(valid_table_example)
        /\ letter \in {<<"I">>, <<"J">>})
        => result = PyTuple(<<-1, -1>>)
    /\ (op = "create_table" /\ result.type = "list")
        => /\ result # PyList(valid_table_example)
           /\ \E p \in Places(result.list) : CellAt(result.list, p) = IJ

C30_Witness ==
    /\ op = "_get_coordinates"
    /\ table = PyList(valid_table_example)
    /\ letter = <<"I">>
    /\ result = PyTuple(<<-1, -1>>)

\* a text with every 'J' written as 'I'
JtoI(text) == [i \in DOMAIN text |-> IF text[i] = "J" THEN "I" ELSE text[i]]

\* C24 as stated: for every pair of valid keys, two valid plaintexts that
\* are the same but for a 'J' in the one where the other has an 'I' encrypt
\* to the same ciphertext: a plaintext encrypts to what it encrypts to with
\* its J's written as I's.
C24_IJOneSymbol ==
    Encrypted => result = encrypt(PyStr(JtoI(message.str)), key1, key2)

\* C26 as stated: for valid keys and a valid plaintext p, decrypt with the
\* default flags of what encrypt returned succeeds and returns p upper-cased,
\* without its non-letters, with every 'J' written as 'I', padded with 'Z'
\* when the number of its letters is odd, and then without one final 'Z'.
C26_DefaultRoundTrip ==
    (/\ op = "decrypt"
     /\ ValidKeys
     /\ validate_plaintext(plaintext)
     /\ omit_j = PyBool(TRUE)
     /\ remove_z = PyBool(TRUE))
    => result = PyStr(StripOneZ(Padded(JtoI(Normalised(plaintext.str)))))

\* C27: for valid keys and a valid plaintext, encrypt returns a non-empty
\* string made only of the uppercase ASCII letters A-Z, which
\* validate_message accepts in mode 'cipher'.
C27_CiphertextValid ==
    Encrypted =>
        /\ result.type = "str"
        /\ Len(result.str) > 0
        /\ \A i \in DOMAIN result.str : result.str[i] \in UpperLetters
        /\ validate_message(result, "cipher")

C27_Witness ==
    /\ Encrypted
    /\ In("a", message.str)
    /\ In(" ", message.str)
    /\ result.type = "str"
    /\ In("J", result.str)
    /\ validate_message(result, "cipher")

\* C29: the length rule of validate_key never decides: validate_key never
\* reports 'more than twenty-five characters', a key that passes the type,
\* non-empty, character, duplicate and I/J checks is accepted, and every
\* accepted key has between 1 and 25 characters.
C29_LengthRuleUnreachable ==
    op = "validate_key" =>
        /\ printed # ErrKeyLen
        /\ (/\ key1.type = "str"
            /\ key1.str # <<>>
            /\ KeyLoopError(upper(key1.str), <<>>) = NoError)
           => result = PyBool(TRUE)
        /\ result = PyBool(TRUE) => (Len(key1.str) >= 1 /\ Len(key1.str) <= 25)

C29_Witness ==
    /\ op = "validate_key"
    /\ key1 = PyStr(KeyAlphabet26)
    /\ printed = ErrKeyIJ
    /\ result = PyBool(FALSE)

\* a key upper-cased, with every 'J' written as 'I'
KeyNorm(key) == JtoI(upper(key))

\* the other valid keys that become equal to a key after upper-casing and
\* replacing every 'J' by 'I'
ValidPool == {j \in KeyPool : validate_key(PyStr(j))}

AlikeKeys(key) ==
    {PyStr(k) : k \in {j \in ValidPool : j # key /\ KeyNorm(j) = KeyNorm(key)}}

\* the same call as the last one, with other keys
SameCall(k1, k2) ==
    CASE op = "create_table" -> create_table(k1)
      [] op = "encrypt" -> encrypt(message, k1, k2)
      [] op = "decrypt" -> decrypt(message, k1, k2, omit_j, remove_z)

\* C28: two valid keys that become equal after upper-casing and replacing
\* every 'J' by 'I' give identical tables, and identical results of encrypt
\* and decrypt when the one is used for the other as key1 or as key2.
C28_KeyIdentities ==
    /\ (op = "create_table" /\ validate_key(key1)) =>
            \A k \in AlikeKeys(key1.str) : SameCall(k, key2) = result
    /\ (op \in {"encrypt", "decrypt"} /\ ValidKeys) =>
            /\ \A k \in AlikeKeys(key1.str) : SameCall(k, key2) = result
            /\ \A k \in AlikeKeys(key2.str) : SameCall(key1, k) = result

C28_Witness ==
    /\ op = "decrypt"
    /\ key1 = PyStr(<<"q", "J">>)
    /\ key2 = PyStr(<<"U+FB01">>)
    /\ PyStr(<<"Q", "i">>) \in AlikeKeys(key1.str)
    /\ PyStr(<<"F", "J">>) \in AlikeKeys(key2.str)
    /\ result.type = "str"
    /\ Len(result.str) >= 2

\* what a call answers to its arguments alone
Answer ==
    CASE op = "validate_key" -> PyBool(validate_key(key1))
      [] op = "create_table" -> create_table(key1)
      [] op = "validate_message" -> PyBool(validate_message(message, mode.name))
      [] op = "encrypt" -> encrypt(message, key1, key2)
      [] op = "decrypt" -> decrypt(message, key1, key2, omit_j, remove_z)
      [] OTHER -> result

====
